---- MODULE Spec2Model ----
(***************************************************************************)
(* State-machine model of the playback and practice engine of the piano    *)
(* teacher application (src/App.tsx, component App).                       *)
(*                                                                         *)
(* Time is counted in milliseconds (performance.now()).  Song progress     *)
(* (playbackProgressRef, playbackProgress) is kept in quarter-milliseconds *)
(* and the speed multiplier in quarters (4 = 1.0x), so that                *)
(* elapsed * playbackSpeed is exact integer arithmetic.                    *)
(*                                                                         *)
(* One action is one event-loop task: the handler or callback followed by  *)
(* the re-render it causes and the effects of that render.                 *)
(***************************************************************************)
EXTENDS Integers, Sequences, FiniteSets, TLC

(* ------------------------------ bounds --------------------------------- *)
\* time stops advancing freely (and the user stops operating) at MaxNow
MaxNow == 2400
\* the clock is sampled by the model on a grid of TickStep ms and at timer dues
TickStep == 300
\* most milliseconds that pass between a handler and the effects of its render
MaxRenderDelay == 1
\* generation requests issued in one behaviour
MaxLoads == 2
\* operations the user makes in one behaviour
MaxOps == 6
\* callbacks of one kind that the user lets be pending at once
MaxPending == 1
\* operations made in one behaviour when the handlers are called directly
MaxApiOps == 4
\* generation requests issued in one behaviour of repeated generation
MaxReloads == 3
\* callbacks of one kind pending at once when keys are pressed in quick succession
MaxRepeats == 2
\* startListening calls made in one behaviour
MaxStarts == 2
\* messages the live sessions deliver in one behaviour
MaxMessages == 3

(* ------------------------- program constants --------------------------- *)
EndTrailMs == 100
PulseMs == 300
CompletionDelayMs == 2000
StopAllRampMs == 50
StopNoteRampMs == 100

\* playbackSpeed options of the speed select, in quarters (0.5x, 1.0x, 1.5x)
Speeds == {2, 4, 6}
InitialSpeed == 4

\* keys of the on-screen keyboard that the model presses
Keys == {"C4", "D4"}

N(n, d, s) == [note |-> n, duration |-> d, startTime |-> s]

\* note sequences the generation service may return
Songs ==
  << << N("C4", 300, 0), N("Rest", 300, 300), N("D4", 300, 600) >>,
     << N("Rest", 300, 0), N("Rest", 300, 300), N("C4", 300, 600) >> >>

NoSong == 0
SongIds == 1..Len(Songs)

\* a sequence of pitches as notes of 300 ms that follow one another
Tune(ps) == [i \in 1..Len(ps) |-> N(ps[i], 300, 300 * (i - 1))]

\* further note sequences the service may return: rests only, rests at either
\* end, runs of rests, repeated pitches
PracticeSongs ==
  << Tune(<< "Rest" >>),
     Tune(<< "Rest", "Rest" >>),
     Tune(<< "C4" >>),
     Tune(<< "C4", "Rest" >>),
     Tune(<< "Rest", "D4", "Rest", "Rest" >>),
     Tune(<< "C4", "C4", "Rest", "Rest", "D4" >>),
     Tune(<< "D4", "Rest", "C4", "Rest", "D4", "C4" >>) >>

PracticeIds == (Len(Songs) + 1)..(Len(Songs) + Len(PracticeSongs))

NullInfo == [note |-> "null", startTime |-> -1]
NoNote == "null"
NoError == "none"

AppStates == {"IDLE", "LOADING", "LOADED", "PLAYING", "PAUSED", "ERROR", "LEARNING"}

(* ------------------------------ state ---------------------------------- *)
VARIABLES
  \* React state of App
  appState, song, highlightedNoteInfo, activeNotes, errorInfo, playbackSpeed,
  learningNoteIndex, correctPressNote, incorrectPressNote, completionMessage,
  playbackProgress,
  \* refs of App
  audioContextRef, manualNodesRef, scheduledNodesRef, scheduledUiCallbacksRef,
  playbackStartTimeRef, playbackProgressRef,
  \* useLiveFeedback
  isListening,
  \* environment: clock, armed setTimeout callbacks, oscillators of the audio
  \* context, getSongNotes calls in flight, operations the user has made, Web
  \* Audio availability, times the AudioContext constructor has thrown
  now, timers, nodes, inflight, loadsIssued, userOps, audioSupported, audioFailures,
  \* state and refs of useLiveFeedback
  transcriptions, liveError, sessionPromiseRef, mediaStreamRef, isStoppingRef,
  currentInputTranscriptionRef, currentOutputTranscriptionRef,
  \* environment of useLiveFeedback: getUserMedia calls awaiting permission,
  \* microphone streams with live tracks, live sessions that are connecting
  \* and that are open, the session a stopListening call awaits, calls and
  \* messages so far
  micRequests, streams, connecting, opened, stopAwaits, startsIssued, messagesSeen

vars == << appState, song, highlightedNoteInfo, activeNotes, errorInfo, playbackSpeed,
           learningNoteIndex, correctPressNote, incorrectPressNote, completionMessage,
           playbackProgress,
           audioContextRef, manualNodesRef, scheduledNodesRef, scheduledUiCallbacksRef,
           playbackStartTimeRef, playbackProgressRef,
           isListening,
           now, timers, nodes, inflight, loadsIssued, userOps, audioSupported,
           audioFailures,
           transcriptions, liveError, sessionPromiseRef, mediaStreamRef, isStoppingRef,
           currentInputTranscriptionRef, currentOutputTranscriptionRef,
           micRequests, streams, connecting, opened, stopAwaits, startsIssued,
           messagesSeen >>

\* the variables of useLiveFeedback, isListening aside
liveVars == << transcriptions, liveError, sessionPromiseRef, mediaStreamRef, isStoppingRef,
               currentInputTranscriptionRef, currentOutputTranscriptionRef,
               micRequests, streams, connecting, opened, stopAwaits, startsIssued,
               messagesSeen >>

\* the whole state as one record, so that a handler is a function of it
Cur ==
  [ appState |-> appState, song |-> song, highlightedNoteInfo |-> highlightedNoteInfo,
    activeNotes |-> activeNotes, errorInfo |-> errorInfo, playbackSpeed |-> playbackSpeed,
    learningNoteIndex |-> learningNoteIndex, correctPressNote |-> correctPressNote,
    incorrectPressNote |-> incorrectPressNote, completionMessage |-> completionMessage,
    playbackProgress |-> playbackProgress,
    audioContextRef |-> audioContextRef, manualNodesRef |-> manualNodesRef,
    scheduledNodesRef |-> scheduledNodesRef,
    scheduledUiCallbacksRef |-> scheduledUiCallbacksRef,
    playbackStartTimeRef |-> playbackStartTimeRef,
    playbackProgressRef |-> playbackProgressRef,
    isListening |-> isListening,
    now |-> now, timers |-> timers, nodes |-> nodes, inflight |-> inflight,
    loadsIssued |-> loadsIssued, userOps |-> userOps,
    audioSupported |-> audioSupported, audioFailures |-> audioFailures ]

CommitApp(s) ==
  /\ appState' = s.appState
  /\ song' = s.song
  /\ highlightedNoteInfo' = s.highlightedNoteInfo
  /\ activeNotes' = s.activeNotes
  /\ errorInfo' = s.errorInfo
  /\ playbackSpeed' = s.playbackSpeed
  /\ learningNoteIndex' = s.learningNoteIndex
  /\ correctPressNote' = s.correctPressNote
  /\ incorrectPressNote' = s.incorrectPressNote
  /\ completionMessage' = s.completionMessage
  /\ playbackProgress' = s.playbackProgress
  /\ audioContextRef' = s.audioContextRef
  /\ manualNodesRef' = s.manualNodesRef
  /\ scheduledNodesRef' = s.scheduledNodesRef
  /\ scheduledUiCallbacksRef' = s.scheduledUiCallbacksRef
  /\ playbackStartTimeRef' = s.playbackStartTimeRef
  /\ playbackProgressRef' = s.playbackProgressRef
  /\ isListening' = s.isListening
  /\ now' = s.now
  /\ timers' = s.timers
  /\ nodes' = s.nodes
  /\ inflight' = s.inflight
  /\ loadsIssued' = s.loadsIssued
  /\ userOps' = s.userOps
  /\ audioSupported' = s.audioSupported
  /\ audioFailures' = s.audioFailures

\* a step of App: the hook's own state stays as it is
Commit(s) == CommitApp(s) /\ UNCHANGED liveVars

\* no stream, no session, no stopListening call waiting
NoneYet == 0

Init ==
  /\ appState = "IDLE"
  /\ song = NoSong
  /\ highlightedNoteInfo = NullInfo
  /\ activeNotes = {}
  /\ errorInfo = NoError
  /\ playbackSpeed = InitialSpeed
  /\ learningNoteIndex = 0
  /\ correctPressNote = NoNote
  /\ incorrectPressNote = NoNote
  /\ completionMessage = FALSE
  /\ playbackProgress = 0
  /\ audioContextRef = FALSE
  /\ manualNodesRef = {}
  /\ scheduledNodesRef = {}
  /\ scheduledUiCallbacksRef = {}
  /\ playbackStartTimeRef = 0
  /\ playbackProgressRef = 0
  /\ isListening = FALSE
  /\ now = 0
  /\ timers = {}
  /\ nodes = {}
  /\ inflight = {}
  /\ loadsIssued = 0
  /\ userOps = 0
  /\ audioSupported \in BOOLEAN
  /\ audioFailures = 0
  /\ transcriptions = << >>
  /\ liveError = NoError
  /\ sessionPromiseRef = NoneYet
  /\ mediaStreamRef = NoneYet
  /\ isStoppingRef = FALSE
  /\ currentInputTranscriptionRef = 0
  /\ currentOutputTranscriptionRef = 0
  /\ micRequests = {}
  /\ streams = {}
  /\ connecting = {}
  /\ opened = {}
  /\ stopAwaits = NoneYet
  /\ startsIssued = 0
  /\ messagesSeen = 0

(* ------------------------------ helpers -------------------------------- *)
Min(a, b) == IF a <= b THEN a ELSE b
Max(a, b) == IF a >= b THEN a ELSE b

\* least integer >= a / b, for b > 0
CeilDiv(a, b) == -((-a) \div b)

\* the k-th smallest positive handle that is not in use
RECURSIVE NthFree(_, _)
NthFree(used, k) ==
  LET least == CHOOSE i \in 1..(Cardinality(used) + 1) : i \notin used
  IN IF k <= 1 THEN least ELSE NthFree(used \cup {least}, k - 1)

\* song[i] of the code: i counts from 0, and is undefined past the end
NotesOf(sg) ==
  IF sg = NoSong THEN << >>
  ELSE IF sg <= Len(Songs) THEN Songs[sg]
  ELSE PracticeSongs[sg - Len(Songs)]
HasNote(sg, i) == i >= 0 /\ i < Len(NotesOf(sg))
NoteAt(sg, i) == NotesOf(sg)[i + 1]

\* a manual oscillator on which stop() was never called has no end
Never == -1

TimerIds(ts) == {t.id : t \in ts}
NodeIds(ns) == {n.id : n \in ns}
HeldNotes(m) == {e.note : e \in m}

(* ---------------------------- initializeAudio -------------------------- *)
\* whether initializeAudio() returns true
AudioOk(s) == s.audioContextRef \/ s.audioSupported

\* the state initializeAudio() leaves: the context created, or the error shown
initializeAudio(s) ==
  IF s.audioContextRef THEN s
  ELSE IF s.audioSupported THEN [s EXCEPT !.audioContextRef = TRUE]
  ELSE [s EXCEPT !.errorInfo = "Audio Error", !.audioFailures = @ + 1]

(* ------------------------------ stopAllSounds -------------------------- *)
\* oscillator.stop(currentTime + 0.05) on every node of scheduledNodesRef
StopScheduledNodes(s) == {n \in s.nodes : n.id \notin s.scheduledNodesRef}

\* forEach(clearTimeout) on scheduledUiCallbacksRef
ClearUiCallbacks(s) == {t \in s.timers : t.id \notin s.scheduledUiCallbacksRef}

\* oscillator.stop(currentTime + 0.05) on every node of manualNodesRef: a node
\* whose onended callback is set (by stopNote) still has to deliver it
StopManualNodes(s, ns) ==
  LET held == {e.id : e \in s.manualNodesRef}
  IN {n \in ns : n.id \notin held}
     \cup {[n EXCEPT !.endAt = IF n.endAt # Never /\ n.endAt <= s.now
                               THEN n.endAt ELSE s.now + StopAllRampMs] :
             n \in {m \in ns : m.id \in held /\ m.onended}}

\* a teardown that also folds the time since the anchor into the stored progress
stopAllSoundsAccumulating(s) ==
  [s EXCEPT !.nodes = StopManualNodes(s, StopScheduledNodes(s)),
            !.scheduledNodesRef = {},
            !.timers = ClearUiCallbacks(s),
            !.scheduledUiCallbacksRef = {},
            !.manualNodesRef = {},
            !.activeNotes = {},
            !.playbackProgressRef = @ + (s.now - s.playbackStartTimeRef) * s.playbackSpeed]

stopAllSounds(s) ==
  [s EXCEPT !.nodes = StopManualNodes(s, StopScheduledNodes(s)),
            !.scheduledNodesRef = {},
            !.timers = ClearUiCallbacks(s),
            !.scheduledUiCallbacksRef = {},
            !.manualNodesRef = {},
            !.activeNotes = {}]

(* --------------------------- playNote / stopNote ----------------------- *)
playNote(s, note) ==
  LET a == initializeAudio(s)
      id == NthFree(NodeIds(a.nodes) \cup a.scheduledNodesRef, 1)
  IN IF ~AudioOk(s) \/ note = "Rest" \/ note \in HeldNotes(a.manualNodesRef) THEN a
     ELSE [a EXCEPT
             !.nodes = @ \cup {[id |-> id, kind |-> "manual", note |-> note,
                                startAt |-> Never, endAt |-> Never, onended |-> FALSE]},
             !.manualNodesRef = @ \cup {[note |-> note, id |-> id]},
             !.activeNotes = @ \cup {note}]

stopNote(s, note) ==
  LET entries == {e \in s.manualNodesRef : e.note = note}
      ids == {e.id : e \in entries}
  IN IF ~s.audioContextRef \/ entries = {} THEN s
     ELSE [s EXCEPT
             !.nodes = {n \in @ : n.id \notin ids}
                       \cup {[n EXCEPT !.onended = TRUE,
                                       !.endAt = IF n.endAt # Never /\ n.endAt <= s.now
                                                 THEN n.endAt ELSE s.now + StopNoteRampMs] :
                               n \in {m \in s.nodes : m.id \in ids}},
             !.activeNotes = @ \ {note}]

(* ------------------------------ scheduleSong --------------------------- *)
\* indices of the notes that song.forEach does not skip, in song order
Remaining(sg, startOffset) ==
  {i \in 0..(Len(NotesOf(sg)) - 1) : ~(4 * NoteAt(sg, i).startTime < startOffset)}

\* startTimeSec * 1000, rounded up to the clock's resolution
StartDelay(nt, startOffset, speed) == CeilDiv(4 * nt.startTime - startOffset, speed)

\* (startTimeSec + durationSec) * 1000
StopDelay(nt, startOffset, speed) ==
  CeilDiv(4 * (nt.startTime + nt.duration) - startOffset, speed)

\* the terminal delay with its 100 ms trail divided by the speed as well
EndDelayScaled(sg, startOffset, speed) ==
  LET lastNote == NoteAt(sg, Len(NotesOf(sg)) - 1)
  IN Max(0, CeilDiv(4 * (lastNote.startTime + lastNote.duration + EndTrailMs) - startOffset,
                    speed))

\* songDurationMs + 100; setTimeout treats a negative delay as 0
EndDelay(sg, startOffset, speed) ==
  LET lastNote == NoteAt(sg, Len(NotesOf(sg)) - 1)
  IN Max(0, CeilDiv(4 * (lastNote.startTime + lastNote.duration) - startOffset, speed)
            + EndTrailMs)

\* position (from 1) of index i among the indices of set I
Rank(I, i) == Cardinality({j \in I : j <= i})

\* the uiTimeout handles and callbacks armed for the notes of I
UiTimeouts(s, I, startOffset) ==
  {[id |-> NthFree(TimerIds(s.timers), Rank(I, i)), kind |-> "highlight",
    at |-> s.now + StartDelay(NoteAt(s.song, i), startOffset, s.playbackSpeed),
    note |-> NoteAt(s.song, i).note, startTime |-> NoteAt(s.song, i).startTime] : i \in I}

EndTimeout(s, I, startOffset) ==
  [id |-> NthFree(TimerIds(s.timers), Cardinality(I) + 1), kind |-> "end",
   at |-> s.now + EndDelay(s.song, startOffset, s.playbackSpeed),
   note |-> NoNote, startTime |-> -1]

\* the oscillators created, started and given their stop time for the notes of I
ScheduledNodes(s, I, startOffset) ==
  LET J == {i \in I : NoteAt(s.song, i).note # "Rest"}
  IN {[id |-> NthFree(NodeIds(s.nodes), Rank(J, i)), kind |-> "scheduled",
       note |-> NoteAt(s.song, i).note,
       startAt |-> s.now + StartDelay(NoteAt(s.song, i), startOffset, s.playbackSpeed),
       endAt |-> s.now + StopDelay(NoteAt(s.song, i), startOffset, s.playbackSpeed),
       onended |-> FALSE] : i \in J}

\* the body of scheduleSong after its guard and its stopAllSounds()
ArmPlan(s, startOffset) ==
  LET I == Remaining(s.song, startOffset)
      ui == UiTimeouts(s, I, startOffset)
      sn == ScheduledNodes(s, I, startOffset)
      en == EndTimeout(s, I, startOffset)
  IN [s EXCEPT !.timers = @ \cup ui \cup {en},
               !.nodes = @ \cup sn,
               !.scheduledNodesRef = NodeIds(sn),
               !.scheduledUiCallbacksRef = TimerIds(ui) \cup {en.id}]

\* scheduleSong without its stopAllSounds(): the plan before it stays armed
scheduleSongKeepingPlan(s, startOffset) ==
  IF s.song = NoSong THEN s
  ELSE IF ~AudioOk(s) THEN initializeAudio(s)
  ELSE ArmPlan(initializeAudio(s), startOffset)

scheduleSong(s, startOffset) ==
  IF s.song = NoSong THEN s
  ELSE IF ~AudioOk(s) THEN initializeAudio(s)
  ELSE ArmPlan(stopAllSounds(initializeAudio(s)), startOffset)

(* ------------------------------- handlers ------------------------------ *)
\* setTimeout callbacks that are never cancelled carry no handle
Untracked(kind, at) == [id |-> 0, kind |-> kind, at |-> at, note |-> NoNote, startTime |-> -1]

\* the while loops of onNoteDown and handleToggleLearning: first index >= i that
\* holds no rest (the song length if there is none)
\* the while loop left out
NoSkip(sg, i) == i

RECURSIVE SkipRests(_, _)
SkipRests(sg, i) ==
  IF HasNote(sg, i) /\ NoteAt(sg, i).note = "Rest" THEN SkipRests(sg, i + 1) ELSE i

\* onNoteDown that moves the cursor one index on, rests included
onNoteDownStepOne(s, note) ==
  LET a == initializeAudio(s)
  IN IF a.appState = "LEARNING" /\ a.song # NoSong THEN
       IF HasNote(a.song, a.learningNoteIndex)
          /\ note = NoteAt(a.song, a.learningNoteIndex).note THEN
         LET p == playNote(a, note)
             q == [p EXCEPT !.correctPressNote = note,
                            !.timers = @ \cup {Untracked("correctPulse", p.now + PulseMs)}]
             nextIndex == a.learningNoteIndex + 1
         IN IF nextIndex >= Len(NotesOf(a.song)) THEN
              [q EXCEPT !.completionMessage = TRUE,
                        !.timers = @ \cup {Untracked("completion", q.now + CompletionDelayMs)}]
            ELSE [q EXCEPT !.learningNoteIndex = nextIndex]
       ELSE [a EXCEPT !.incorrectPressNote = note,
                      !.timers = @ \cup {Untracked("incorrectPulse", a.now + PulseMs)}]
     ELSE playNote(a, note)

\* onNoteDown that sounds the key also when it is not the target
onNoteDownSounding(s, note) ==
  LET a == initializeAudio(s)
  IN IF a.appState = "LEARNING" /\ a.song # NoSong THEN
       IF HasNote(a.song, a.learningNoteIndex)
          /\ note = NoteAt(a.song, a.learningNoteIndex).note THEN
         LET p == playNote(a, note)
             q == [p EXCEPT !.correctPressNote = note,
                            !.timers = @ \cup {Untracked("correctPulse", p.now + PulseMs)}]
             nextIndex == SkipRests(a.song, a.learningNoteIndex + 1)
         IN IF nextIndex >= Len(NotesOf(a.song)) THEN
              [q EXCEPT !.completionMessage = TRUE,
                        !.timers = @ \cup {Untracked("completion", q.now + CompletionDelayMs)}]
            ELSE [q EXCEPT !.learningNoteIndex = nextIndex]
       ELSE [playNote(a, note) EXCEPT
               !.incorrectPressNote = note,
               !.timers = @ \cup {Untracked("incorrectPulse", a.now + PulseMs)}]
     ELSE playNote(a, note)

onNoteDown(s, note) ==
  LET a == initializeAudio(s)
  IN IF a.appState = "LEARNING" /\ a.song # NoSong THEN
       IF HasNote(a.song, a.learningNoteIndex)
          /\ note = NoteAt(a.song, a.learningNoteIndex).note THEN
         LET p == playNote(a, note)
             q == [p EXCEPT !.correctPressNote = note,
                            !.timers = @ \cup {Untracked("correctPulse", p.now + PulseMs)}]
             nextIndex == SkipRests(a.song, a.learningNoteIndex + 1)
         IN IF nextIndex >= Len(NotesOf(a.song)) THEN
              [q EXCEPT !.completionMessage = TRUE,
                        !.timers = @ \cup {Untracked("completion", q.now + CompletionDelayMs)}]
            ELSE [q EXCEPT !.learningNoteIndex = nextIndex]
       ELSE [a EXCEPT !.incorrectPressNote = note,
                      !.timers = @ \cup {Untracked("incorrectPulse", a.now + PulseMs)}]
     ELSE playNote(a, note)

onNoteUp(s, note) == stopNote(s, note)

\* resetPlayback without its stopAllSounds(): the plan stays armed
resetPlaybackKeepingPlan(s, seen) ==
  LET b == [s EXCEPT !.highlightedNoteInfo = NullInfo,
                     !.playbackProgressRef = 0,
                     !.playbackProgress = 0]
  IN IF seen \in {"PLAYING", "PAUSED"} THEN [b EXCEPT !.appState = "LOADED"] ELSE b

\* seen is the appState of the render whose closure runs
resetPlayback(s, seen) ==
  LET a == stopAllSounds(s)
      b == [a EXCEPT !.highlightedNoteInfo = NullInfo,
                     !.playbackProgressRef = 0,
                     !.playbackProgress = 0]
  IN IF seen \in {"PLAYING", "PAUSED"} THEN [b EXCEPT !.appState = "LOADED"] ELSE b

\* the offset handlePlayPause passes to scheduleSong
PlayOffset(s) == IF s.appState = "PAUSED" THEN s.playbackProgressRef ELSE 0

handlePlayPause(s) ==
  IF s.appState = "PLAYING" THEN
    LET elapsedTime == (s.now - s.playbackStartTimeRef) * s.playbackSpeed
        a == [s EXCEPT !.playbackProgressRef = @ + elapsedTime]
    IN [stopAllSounds(a) EXCEPT !.appState = "PAUSED"]
  ELSE
    LET a == [s EXCEPT !.playbackStartTimeRef = s.now]
        b == scheduleSong(a, PlayOffset(s))
    IN [b EXCEPT !.appState = "PLAYING"]

\* handleToggleLearning without its while loop over leading rests
handleToggleLearningAtZero(s) ==
  IF s.appState = "LEARNING" THEN
    [s EXCEPT !.appState = "LOADED", !.learningNoteIndex = 0,
              !.highlightedNoteInfo = NullInfo]
  ELSE IF s.song # NoSong THEN
    IF ~AudioOk(s) THEN initializeAudio(s)
    ELSE LET a == resetPlayback(initializeAudio(s), s.appState)
         IN [a EXCEPT !.completionMessage = FALSE,
                      !.learningNoteIndex = 0,
                      !.appState = "LEARNING"]
  ELSE s

handleToggleLearning(s) ==
  IF s.appState = "LEARNING" THEN
    [s EXCEPT !.appState = "LOADED", !.learningNoteIndex = 0,
              !.highlightedNoteInfo = NullInfo]
  ELSE IF s.song # NoSong THEN
    IF ~AudioOk(s) THEN initializeAudio(s)
    ELSE LET a == resetPlayback(initializeAudio(s), s.appState)
         IN [a EXCEPT !.completionMessage = FALSE,
                      !.learningNoteIndex = SkipRests(s.song, 0),
                      !.appState = "LEARNING"]
  ELSE s

\* handleLoad up to its await; r is the getSongNotes call it leaves in flight
handleLoad(s, r) ==
  LET a == [s EXCEPT !.appState = "LOADING", !.song = NoSong, !.errorInfo = NoError]
      b == resetPlayback(a, s.appState)
  IN [b EXCEPT !.completionMessage = FALSE,
               !.inflight = @ \cup {r},
               !.loadsIssued = @ + 1]

\* handleLoad after its await: notes is a song, or NoSong for null
loadResolved(s, r, notes) ==
  IF notes # NoSong
  THEN [s EXCEPT !.song = notes, !.appState = "LOADED", !.inflight = @ \ {r}]
  ELSE [s EXCEPT !.errorInfo = "Generation Failed", !.appState = "ERROR",
                 !.inflight = @ \ {r}]

\* handleLoad's catch block, when getSongNotes throws
loadThrew(s, r) ==
  [s EXCEPT !.errorInfo = "Configuration Error", !.appState = "ERROR", !.inflight = @ \ {r}]

\* an animation frame that stores the position it derives and moves the anchor
animationLoopStoring(s) ==
  IF s.appState # "PLAYING" THEN s
  ELSE LET elapsedTime == (s.now - s.playbackStartTimeRef) * s.playbackSpeed
       IN [s EXCEPT !.playbackProgress = s.playbackProgressRef + elapsedTime,
                    !.playbackProgressRef = s.playbackProgressRef + elapsedTime,
                    !.playbackStartTimeRef = s.now]

animationLoop(s) ==
  IF s.appState # "PLAYING" THEN s
  ELSE LET elapsedTime == (s.now - s.playbackStartTimeRef) * s.playbackSpeed
       IN [s EXCEPT !.playbackProgress = s.playbackProgressRef + elapsedTime]

(* ---------------------------- timer callbacks -------------------------- *)
\* the callback of armed timer t runs
fireTimer(s, t) ==
  LET a == [s EXCEPT !.timers = @ \ {t}]
  IN CASE t.kind = "highlight" ->
            [a EXCEPT !.highlightedNoteInfo = [note |-> t.note, startTime |-> t.startTime]]
       [] t.kind = "end" ->
            [a EXCEPT !.appState = "LOADED", !.highlightedNoteInfo = NullInfo,
                      !.playbackProgressRef = 0, !.playbackProgress = 0]
       [] t.kind = "correctPulse" -> [a EXCEPT !.correctPressNote = NoNote]
       [] t.kind = "incorrectPulse" -> [a EXCEPT !.incorrectPressNote = NoNote]
       [] t.kind = "completion" ->
            [a EXCEPT !.appState = "LOADED", !.learningNoteIndex = 0,
                      !.completionMessage = FALSE]

\* oscillator.onended of a node released by stopNote
nodeEnded(s, n) ==
  [s EXCEPT !.nodes = @ \ {n},
            !.manualNodesRef = {e \in @ : e.note # n.note}]

(* -------------------------- effects of a render ------------------------ *)
\* the dependencies [playbackSpeed, appState, scheduleSong] changed and the
\* rendered state is PLAYING
Replans(old, s) ==
  /\ s.appState = "PLAYING"
  /\ \/ old.appState # s.appState
     \/ old.playbackSpeed # s.playbackSpeed
     \/ old.song # s.song

\* useEffect[playbackSpeed, appState, scheduleSong], run d ms after the handler
SpeedEffect(old, s, d) ==
  IF ~Replans(old, s) THEN s
  ELSE LET a == [s EXCEPT !.now = @ + d]
           elapsedTime == a.now - a.playbackStartTimeRef
           currentProgress == a.playbackProgressRef + elapsedTime * a.playbackSpeed
           b == [a EXCEPT !.playbackStartTimeRef = a.now,
                          !.playbackProgressRef = currentProgress]
       IN scheduleSong(b, currentProgress)

\* the highlight effect without its LEARNING branch
HighlightEffectOnlyClearing(s) ==
  IF s.appState \notin {"PLAYING", "PAUSED", "LEARNING"}
  THEN [s EXCEPT !.highlightedNoteInfo = NullInfo]
  ELSE s

\* useEffect[appState, learningNoteIndex, song, highlightedNoteInfo]
HighlightEffect(s) ==
  IF s.appState = "LEARNING" /\ s.song # NoSong
     /\ s.learningNoteIndex < Len(NotesOf(s.song)) THEN
    LET currentNote == NoteAt(s.song, s.learningNoteIndex)
    IN [s EXCEPT !.highlightedNoteInfo =
                    [note |-> currentNote.note, startTime |-> currentNote.startTime]]
  ELSE IF s.appState \notin {"PLAYING", "PAUSED", "LEARNING"}
  THEN [s EXCEPT !.highlightedNoteInfo = NullInfo]
  ELSE s

Render(old, s, d) == HighlightEffect(SpeedEffect(old, s, d))

\* the state s a handler produced is rendered and the effects run
Rendered(s) ==
  \E d \in 0..MaxRenderDelay :
    /\ d > 0 => Replans(Cur, s) /\ now % TickStep = 0
    /\ Commit(Render(Cur, s, d))

(* ------------------------------- actions ------------------------------- *)
UserPresent == now < MaxNow /\ userOps < MaxOps

\* a user operation whose handler produced s
User(s) == UserPresent /\ Rendered([s EXCEPT !.userOps = @ + 1])

isInteractionDisabled == appState = "LOADING" \/ appState = "PLAYING" \/ isListening

\* the button of a GeneratorCard
HandleLoad ==
  /\ ~isInteractionDisabled /\ loadsIssued < MaxLoads
  /\ User(handleLoad(Cur, loadsIssued + 1))

LoadResolved ==
  \E r \in inflight, notes \in SongIds \cup {NoSong} : Rendered(loadResolved(Cur, r, notes))

LoadThrew ==
  \E r \in inflight : Rendered(loadThrew(Cur, r))

\* the Play Song / Pause / Resume button
HandlePlayPause ==
  /\ song # NoSong /\ appState \notin {"LOADING", "LEARNING"}
  /\ User(handlePlayPause(Cur))

\* the Stop button
ResetPlayback ==
  /\ song # NoSong /\ appState \in {"PLAYING", "PAUSED"}
  /\ User(resetPlayback(Cur, appState))

\* the Learn Mode / Exit Learn Mode button
HandleToggleLearning ==
  /\ song # NoSong /\ ~isInteractionDisabled /\ appState # "PAUSED"
  /\ User(handleToggleLearning(Cur))

\* the speed select
SetPlaybackSpeed ==
  /\ song # NoSong /\ appState # "PLAYING"
  /\ \E v \in Speeds \ {playbackSpeed} : User([Cur EXCEPT !.playbackSpeed = v])

\* the user lets at most MaxPending callbacks of a kind be pending
FewPending(s) ==
  \A kd \in {"correctPulse", "incorrectPulse", "completion"} :
    Cardinality({t \in s.timers : t.kind = kd}) <= MaxPending

\* mouse down on key k of the Piano
PressKey(k) == FewPending(onNoteDown(Cur, k)) /\ User(onNoteDown(Cur, k))

OnNoteDown ==
  /\ song # NoSong
  /\ \E k \in Keys : PressKey(k)

\* mouse up on, or leaving, a key of the Piano
OnNoteUp ==
  /\ song # NoSong
  /\ \E k \in Keys : User(onNoteUp(Cur, k))

\* the Start Live Feedback / Stop Feedback Session button
StartListening ==
  /\ song # NoSong /\ appState \in {"LOADED", "LEARNING"} /\ ~isListening
  /\ User([Cur EXCEPT !.isListening = TRUE])

\* the same button, or the session closing by itself
StopListening ==
  /\ isListening
  /\ Rendered([Cur EXCEPT !.isListening = FALSE])

\* the Alert's dismiss button
DismissError ==
  /\ errorInfo # NoError
  /\ User([Cur EXCEPT !.errorInfo = NoError])

FireTimer ==
  \E t \in timers : t.at <= now /\ Rendered(fireTimer(Cur, t))

NodeEnded ==
  \E n \in nodes : n.onended /\ n.endAt <= now /\ Rendered(nodeEnded(Cur, n))

\* instants at which an armed callback is due
Dues == {t.at : t \in timers} \cup {n.endAt : n \in {m \in nodes : m.onended}}

MinOf(S) == CHOOSE x \in S : \A y \in S : x <= y

\* a scheduled oscillator ends by itself at the stop time it was given
StillSounding(ns, at) == {n \in ns : ~(n.kind = "scheduled" /\ n.endAt <= at)}

\* something reads the clock or waits for it
ClockObserved == appState = "PLAYING" \/ Dues # {}

\* time passes, up to the next due callback or the next sampling instant, and
\* the animation frame of that instant runs
Tick ==
  /\ ClockObserved
  /\ \A x \in Dues : x > now
  /\ now < MaxNow \/ Dues # {}
  /\ LET nextGrid == (now \div TickStep + 1) * TickStep
         target == IF now < MaxNow THEN MinOf(Dues \cup {nextGrid}) ELSE MinOf(Dues)
     IN Commit(animationLoop([Cur EXCEPT !.now = target,
                                         !.nodes = StillSounding(@, target)]))

\* the application as the user can drive it: every operation is offered only
\* where the rendered controls are enabled
Next ==
  \/ HandleLoad \/ LoadResolved \/ LoadThrew
  \/ HandlePlayPause \/ ResetPlayback \/ HandleToggleLearning \/ SetPlaybackSpeed
  \/ OnNoteDown \/ OnNoteUp
  \/ FireTimer \/ NodeEnded \/ Tick

Spec == Init /\ [][Next]_vars

\* timers fire, oscillators end and time passes whatever the user does
Fairness == WF_vars(Tick) /\ WF_vars(FireTimer) /\ WF_vars(NodeEnded)

FairSpec == Spec /\ Fairness

(* ------------------ the engine's operations, called directly ----------- *)
\* the same handlers without the disabled attributes of the controls
ApiTurn == now < MaxNow /\ userOps < MaxApiOps

Counted(s) == [s EXCEPT !.userOps = @ + 1]

ApiLoad ==
  /\ ApiTurn
  /\ loadsIssued < MaxLoads
  /\ Rendered(Counted(handleLoad(Cur, loadsIssued + 1)))

ApiPlayPause ==
  /\ ApiTurn
  /\ Rendered(Counted(handlePlayPause(Cur)))

ApiStop ==
  /\ ApiTurn
  /\ Rendered(Counted(resetPlayback(Cur, appState)))

ApiToggleLearning ==
  /\ ApiTurn
  /\ Rendered(Counted(handleToggleLearning(Cur)))

ApiSetSpeed ==
  /\ ApiTurn
  /\ \E v \in Speeds \ {playbackSpeed} : Rendered(Counted([Cur EXCEPT !.playbackSpeed = v]))

ApiNoteDown ==
  /\ ApiTurn
  /\ \E k \in Keys :
       /\ FewPending(onNoteDown(Cur, k))
       /\ Rendered(Counted(onNoteDown(Cur, k)))

ApiNoteUp ==
  /\ ApiTurn
  /\ \E k \in Keys : Rendered(Counted(onNoteUp(Cur, k)))

NextApi ==
  \/ ApiLoad \/ LoadResolved \/ LoadThrew
  \/ ApiPlayPause \/ ApiStop \/ ApiToggleLearning \/ ApiSetSpeed
  \/ ApiNoteDown \/ ApiNoteUp
  \/ FireTimer \/ NodeEnded \/ Tick

SpecApi == Init /\ [][NextApi]_vars


(* --------------------------- practice sessions ------------------------- *)
\* a generation resolves with any of the note sequences
LoadResolvedAny ==
  \E r \in inflight, notes \in SongIds \cup PracticeIds :
    Rendered(loadResolved(Cur, r, notes))

\* loading and Learn Mode, on every note sequence
NextLearn ==
  \/ HandleLoad \/ LoadResolvedAny
  \/ HandleToggleLearning
  \/ OnNoteDown \/ OnNoteUp
  \/ FireTimer \/ NodeEnded \/ Tick

SpecLearn == Init /\ [][NextLearn]_vars

\* practice sessions in which timers fire, oscillators end and time passes
\* whatever the user does
FairSpecLearn == SpecLearn /\ Fairness

(* ------------------------- keys pressed repeatedly --------------------- *)
SomePending(s) ==
  \A kd \in {"correctPulse", "incorrectPulse", "completion"} :
    Cardinality({t \in s.timers : t.kind = kd}) <= MaxRepeats

\* mouse down on a key of the Piano, also while callbacks of earlier presses
\* are pending
PressAgain ==
  /\ song # NoSong
  /\ \E k \in Keys : SomePending(onNoteDown(Cur, k)) /\ User(onNoteDown(Cur, k))

\* loading and Learn Mode with keys pressed in quick succession
NextRepeat ==
  \/ HandleLoad \/ LoadResolvedAny
  \/ HandleToggleLearning
  \/ PressAgain \/ OnNoteUp
  \/ FireTimer \/ NodeEnded \/ Tick

SpecRepeat == Init /\ [][NextRepeat]_vars

(* ----------------------------- useLiveFeedback ------------------------- *)
\* text is counted in fragments; a message of the session carries an input
\* fragment, an output fragment and the turnComplete mark, each or none
Messages == [input : BOOLEAN, output : BOOLEAN, turnComplete : BOOLEAN]

Entry(u, a, done) == [user |-> u, assistant |-> a, isTurnComplete |-> done]

\* the Start Live Feedback button: startListening up to its await of
\* getUserMedia
StartListeningCall ==
  /\ appState \in {"LOADED", "LEARNING"} /\ ~isListening
  /\ startsIssued < MaxStarts
  /\ startsIssued' = startsIssued + 1
  /\ micRequests' = micRequests \cup {startsIssued + 1}
  /\ liveError' = NoError
  /\ transcriptions' = << >>
  /\ currentInputTranscriptionRef' = 0
  /\ currentOutputTranscriptionRef' = 0
  /\ CommitApp(Cur)
  /\ UNCHANGED << sessionPromiseRef, mediaStreamRef, isStoppingRef, streams, connecting,
                  opened, stopAwaits, messagesSeen >>

\* getUserMedia resolves: startListening after its await, up to ai.live.connect
MicGranted ==
  \E r \in micRequests :
    /\ micRequests' = micRequests \ {r}
    /\ mediaStreamRef' = r
    /\ streams' = streams \cup {r}
    /\ sessionPromiseRef' = r
    /\ connecting' = connecting \cup {r}
    /\ CommitApp([Cur EXCEPT !.isListening = TRUE])
    /\ UNCHANGED << transcriptions, liveError, isStoppingRef, currentInputTranscriptionRef,
                    currentOutputTranscriptionRef, opened, stopAwaits, startsIssued,
                    messagesSeen >>

\* getUserMedia rejects: the catch block of startListening
MicDenied ==
  \E r \in micRequests :
    /\ micRequests' = micRequests \ {r}
    /\ liveError' = "Microphone"
    /\ CommitApp([Cur EXCEPT !.isListening = FALSE])
    /\ UNCHANGED << transcriptions, sessionPromiseRef, mediaStreamRef, isStoppingRef,
                    currentInputTranscriptionRef, currentOutputTranscriptionRef, streams,
                    connecting, opened, stopAwaits, startsIssued, messagesSeen >>

\* the connection of session c is established and its promise resolves
SessionOpens ==
  \E c \in connecting :
    /\ connecting' = connecting \ {c}
    /\ opened' = opened \cup {c}
    /\ CommitApp(Cur)
    /\ UNCHANGED << transcriptions, liveError, sessionPromiseRef, mediaStreamRef,
                    isStoppingRef, currentInputTranscriptionRef,
                    currentOutputTranscriptionRef, micRequests, streams, stopAwaits,
                    startsIssued, messagesSeen >>

\* stopListening after its await: session c, if any, is closed, the tracks of
\* the stream mediaStreamRef holds now are stopped and the refs are cleared;
\* op is the set of open sessions it finds
StopFinishes(op, c) ==
  /\ opened' = op \ {c}
  /\ streams' = streams \ {mediaStreamRef}
  /\ sessionPromiseRef' = NoneYet
  /\ mediaStreamRef' = NoneYet
  /\ isStoppingRef' = FALSE
  /\ stopAwaits' = NoneYet

\* stopListening up to its await, and beyond it when the promise of
\* sessionPromiseRef is settled or there is none; op and conn are the sessions
\* open and connecting when it is called
stopListening(op, conn) ==
  IF isStoppingRef
  THEN /\ opened' = op
       /\ UNCHANGED << streams, sessionPromiseRef, mediaStreamRef, isStoppingRef,
                       stopAwaits >>
  ELSE IF sessionPromiseRef \in conn
  THEN /\ opened' = op
       /\ isStoppingRef' = TRUE
       /\ stopAwaits' = sessionPromiseRef
       /\ UNCHANGED << streams, sessionPromiseRef, mediaStreamRef >>
  ELSE StopFinishes(op, sessionPromiseRef)

\* isListening after a call of stopListening
AfterStop == IF isStoppingRef THEN isListening ELSE FALSE

\* the Stop Feedback Session button
StopListeningCall ==
  /\ appState \in {"LOADED", "LEARNING"} /\ isListening
  /\ stopListening(opened, connecting)
  /\ CommitApp([Cur EXCEPT !.isListening = AfterStop])
  /\ UNCHANGED << transcriptions, liveError, currentInputTranscriptionRef,
                  currentOutputTranscriptionRef, micRequests, connecting, startsIssued,
                  messagesSeen >>

\* the promise a stopListening call awaits is settled: the call goes on
StopContinues ==
  /\ stopAwaits # NoneYet /\ stopAwaits \notin connecting
  /\ StopFinishes(opened, stopAwaits)
  /\ CommitApp(Cur)
  /\ UNCHANGED << transcriptions, liveError, currentInputTranscriptionRef,
                  currentOutputTranscriptionRef, micRequests, connecting, startsIssued,
                  messagesSeen >>

\* onerror of session c: the session is over, the error is shown and
\* stopListening is called
SessionFails ==
  \E c \in connecting \cup opened :
    /\ connecting' = connecting \ {c}
    /\ liveError' = "Connection"
    /\ stopListening(opened \ {c}, connecting \ {c})
    /\ CommitApp([Cur EXCEPT !.isListening = AfterStop])
    /\ UNCHANGED << transcriptions, currentInputTranscriptionRef,
                    currentOutputTranscriptionRef, micRequests, startsIssued, messagesSeen >>

\* the transcription part of onmessage
onmessage(m) ==
  LET inp == currentInputTranscriptionRef + (IF m.input THEN 1 ELSE 0)
      out == currentOutputTranscriptionRef + (IF m.output THEN 1 ELSE 0)
      n == Len(transcriptions)
  IN IF m.turnComplete
     THEN /\ transcriptions' = Append(transcriptions, Entry(inp, out, TRUE))
          /\ currentInputTranscriptionRef' = 0
          /\ currentOutputTranscriptionRef' = 0
     ELSE /\ transcriptions' =
               IF n > 0 /\ ~transcriptions[n].isTurnComplete
               THEN [transcriptions EXCEPT ![n] = Entry(inp, out, FALSE)]
               ELSE Append(transcriptions, Entry(inp, out, FALSE))
          /\ currentInputTranscriptionRef' = inp
          /\ currentOutputTranscriptionRef' = out

\* an open session delivers a message
OnMessage ==
  /\ opened # {} /\ messagesSeen < MaxMessages
  /\ \E m \in Messages : onmessage(m)
  /\ messagesSeen' = messagesSeen + 1
  /\ CommitApp(Cur)
  /\ UNCHANGED << liveError, sessionPromiseRef, mediaStreamRef, isStoppingRef, micRequests,
                  streams, connecting, opened, stopAwaits, startsIssued >>

\* a song is generated and feedback sessions are started, run and stopped
NextFeedback ==
  \/ HandleLoad \/ LoadResolved
  \/ StartListeningCall \/ MicGranted \/ MicDenied
  \/ SessionOpens \/ SessionFails
  \/ StopListeningCall \/ StopContinues
  \/ OnMessage

SpecFeedback == Init /\ [][NextFeedback]_vars

(* --------------------------- repeated generation ----------------------- *)
\* the button of a GeneratorCard, pressed up to MaxReloads times
Reload ==
  /\ ~isInteractionDisabled /\ loadsIssued < MaxReloads
  /\ User(handleLoad(Cur, loadsIssued + 1))

\* the application with songs generated again and again
NextReload ==
  \/ Reload \/ LoadResolved \/ LoadThrew
  \/ HandlePlayPause \/ ResetPlayback \/ HandleToggleLearning
  \/ OnNoteDown \/ OnNoteUp
  \/ FireTimer \/ NodeEnded \/ Tick

SpecReload == Init /\ [][NextReload]_vars

(* ------------------------- live feedback sessions ---------------------- *)
\* the application with the feedback session started and stopped
NextLive == Next \/ StartListening \/ StopListening

SpecLive == Init /\ [][NextLive]_vars

(* ------------------------ vocabulary of the properties ----------------- *)
\* the callbacks scheduleSong arms: one highlight per note and the terminal one
PlanTimers(ts) == {t \in ts : t.kind \in {"highlight", "end"}}

\* the oscillators scheduleSong created that have neither ended nor been torn down
PlanNodes(ns) == {n \in ns : n.kind = "scheduled"}

\* the oscillators left running: a plan's live ones, and manual ones on which
\* stop() was never called
Unstopped(ns) == {n \in ns : n.kind = "scheduled" \/ n.endAt = Never}

\* the song position the engine derives from its anchor, in quarter-ms
DerivedAt(s) == s.playbackProgressRef + (s.now - s.playbackStartTimeRef) * s.playbackSpeed

\* the least index from i on that holds no rest, the song length if there is none
NextTarget(sg, i) ==
  LET later == {j \in i..(Len(NotesOf(sg)) - 1) : NoteAt(sg, j).note # "Rest"}
  IN IF later = {} THEN Len(NotesOf(sg)) ELSE CHOOSE j \in later : \A m \in later : j <= m

\* key k is the note under the learning cursor
IsTarget(k) ==
  HasNote(song, learningNoteIndex) /\ k = NoteAt(song, learningNoteIndex).note

\* the oscillators playNote created
ManualNodes(ns) == {n \in ns : n.kind = "manual"}

\* a completion callback armed by onNoteDown runs in this step
CompletionFires == \E t \in timers : t.kind = "completion" /\ t \notin timers'

\* pause() at this instant, and play() again at the same instant
Paused(s) == Render(s, handlePlayPause(s), 0)
PauseResume(s) == Render(Paused(s), handlePlayPause(Paused(s)), 0)

\* what a plan still holds in store, handles aside
Ahead(s) ==
  [callbacks |-> {[kind |-> t.kind, at |-> t.at, note |-> t.note, startTime |-> t.startTime] :
                    t \in {u \in PlanTimers(s.timers) : u.at > s.now}},
   tones |-> {[note |-> n.note, startAt |-> n.startAt, endAt |-> n.endAt] :
                n \in PlanNodes(s.nodes)}]

(* ------------------------------- claims -------------------------------- *)
\* C1: a change of playback speed while PLAYING keeps the derived song
\* position: the position held after the change (new accumulated value, new
\* anchor, new speed) equals the position derived just before it with the
\* old speed.
C1_SpeedChangeKeepsPosition ==
  [][(/\ appState = "PLAYING" /\ appState' = "PLAYING" /\ song # NoSong
      /\ playbackSpeed' # playbackSpeed)
       => playbackProgressRef' + (now' - playbackStartTimeRef') * playbackSpeed'
          = playbackProgressRef + (now' - playbackStartTimeRef) * playbackSpeed]_vars

\* C2: outside PLAYING no plan is armed: no highlight or terminal callback is
\* pending and no scheduled oscillator is live.
C2_PlanOnlyWhilePlaying ==
  appState # "PLAYING" => PlanTimers(timers) = {} /\ PlanNodes(nodes) = {}

\* C3: a completion callback that runs after the learning run that armed it
\* was left (the state is no longer LEARNING, or LEARNING was entered anew
\* and nothing was completed since) changes neither appState nor
\* learningNoteIndex.
C3_StaleCompletionIsInert ==
  [][(CompletionFires /\ (appState # "LEARNING" \/ ~completionMessage))
       => appState' = appState /\ learningNoteIndex' = learningNoteIndex]_vars

\* C4: in a run played from the start of the song, once the callbacks due at
\* an instant have run, the highlighted note is the note of the song whose
\* interval [startTime, startTime + duration) holds the derived position;
\* the note that starts at 0 included.
C4_EveryNoteHighlighted ==
  (/\ appState = "PLAYING" /\ song # NoSong /\ audioContextRef
   /\ playbackProgressRef <= MaxRenderDelay * playbackSpeed
   /\ \A t \in timers : t.at > now)
  => \A i \in 0..(Len(NotesOf(song)) - 1) :
       LET nt == NoteAt(song, i)
       IN (4 * nt.startTime <= DerivedAt(Cur)
           /\ DerivedAt(Cur) < 4 * (nt.startTime + nt.duration))
          => highlightedNoteInfo = [note |-> nt.note, startTime |-> nt.startTime]

\* C5: PLAYING that the user leaves alone ends in LOADED with the highlight
\* cleared and both progress values 0.
C5_PlayingEndsInLoaded ==
  (appState = "PLAYING" /\ ~UserPresent)
    ~> (/\ appState = "LOADED" /\ highlightedNoteInfo = NullInfo
        /\ playbackProgressRef = 0 /\ playbackProgress = 0)

\* C6: the offset handlePlayPause hands to scheduleSong when it starts or
\* resumes playback equals the song position derived at that instant from
\* the accumulated value and the anchor it has just set.
C6_PlanOffsetIsPosition ==
  [][(appState # "PLAYING" /\ appState' = "PLAYING")
       => PlayOffset(Cur) = DerivedAt([Cur EXCEPT !.playbackStartTimeRef = now])]_vars

\* C7: pause() and play() at one instant leave the accumulated value at what
\* the pause computed, and arm the plan that was in store without the
\* pause: the same callbacks at the same instants and the same tones with
\* the same start and stop instants.
C7_PauseResumeIsIdentity ==
  (appState = "PLAYING" /\ \A t \in timers : t.at > now)
  => /\ PauseResume(Cur).playbackProgressRef = Paused(Cur).playbackProgressRef
     /\ Ahead(PauseResume(Cur)) = Ahead(Cur)

\* C8: a pause() or stop during PLAYING, which tears the plan down, leaves no
\* highlight or terminal callback pending and no oscillator running.
C8_TeardownLeavesNothing ==
  [][(userOps' > userOps /\ appState = "PLAYING" /\ appState' \in {"PAUSED", "LOADED"})
       => PlanTimers(timers') = {} /\ Unstopped(nodes') = {}]_vars

\* C9: every pending highlight or terminal callback and every live scheduled
\* oscillator is held in the refs the latest scheduleSong filled, and at most
\* one terminal callback is pending.
C9_OnePlanTracked ==
  /\ TimerIds(PlanTimers(timers)) \subseteq scheduledUiCallbacksRef
  /\ NodeIds(PlanNodes(nodes)) \subseteq scheduledNodesRef
  /\ Cardinality({t \in timers : t.kind = "end"}) <= 1

\* a plan armed by a second or later scheduleSong is running
C9_Witness ==
  /\ appState = "PLAYING" /\ playbackProgressRef > 0
  /\ PlanTimers(timers) # {} /\ PlanNodes(nodes) # {}
  /\ \E t \in timers : t.kind = "end"

\* C10: issuing a generation request leaves appState LOADING, it stays
\* LOADING while the request is in flight, and the arrival of the result
\* makes it LOADED or ERROR.
C10_LoadingUntilResult ==
  [][/\ loadsIssued' > loadsIssued => appState' = "LOADING"
     /\ (inflight # {} /\ inflight' = inflight /\ appState = "LOADING")
          => appState' = "LOADING"
     /\ (loadsIssued' = loadsIssued /\ inflight' # inflight)
          => appState' \in {"LOADED", "ERROR"}]_vars


\* C11: appState becomes ERROR only from LOADING, and once ERROR it changes
\* only to LOADING, by a new generation request.
C11_ErrorOnlyAroundLoading ==
  [][/\ (appState # "ERROR" /\ appState' = "ERROR") => appState = "LOADING"
     /\ (appState = "ERROR" /\ appState' # "ERROR")
          => appState' = "LOADING" /\ loadsIssued' > loadsIssued]_vars

\* C12: handlePlayPause called while appState is IDLE, LOADING, ERROR or
\* LEARNING changes nothing: appState, the accumulated progress, the
\* highlighted note and the pending timers stay as they are.
C12_IllegalPlayIsNoOp ==
  [][(ApiPlayPause /\ appState \in {"IDLE", "LOADING", "ERROR", "LEARNING"})
       => UNCHANGED <<appState, playbackProgressRef, highlightedNoteInfo, timers>>]_vars

\* C13: a key pressed while appState is PLAYING starts no manual oscillator
\* and leaves activeNotes as it is.
C13_NoManualPlayWhilePlaying ==
  [][(OnNoteDown /\ appState = "PLAYING")
       => activeNotes' = activeNotes /\ ManualNodes(nodes') = ManualNodes(nodes)]_vars

\* C14: while the feedback session is listening, a pressed key starts no
\* oscillator, and Play Song / Resume arms no plan and does not make appState
\* PLAYING.
C14_NoPlayWhileListening ==
  [][isListening
       => /\ OnNoteDown => ManualNodes(nodes') = ManualNodes(nodes)
          /\ (HandlePlayPause /\ appState # "PLAYING")
               => /\ appState' # "PLAYING"
                  /\ PlanTimers(timers') = PlanTimers(timers)
                  /\ PlanNodes(nodes') = PlanNodes(nodes)]_vars

\* C15: on entering LEARNING the cursor is the least index of the song that
\* holds no rest, and the song length if the song holds only rests.
C15_CursorStartsAtFirstNote ==
  [][(appState # "LEARNING" /\ appState' = "LEARNING")
       => learningNoteIndex' = NextTarget(song', 0)]_vars

\* LEARNING was entered on a song that begins with two rests
C15_Witness ==
  /\ appState = "LEARNING" /\ Len(NotesOf(song)) >= 3 /\ ~completionMessage
  /\ NoteAt(song, 0).note = "Rest" /\ NoteAt(song, 1).note = "Rest"
  /\ learningNoteIndex = 2

\* C16: in LEARNING the cursor is past the end of the song or on a note that
\* is no rest, and it never decreases from one LEARNING state to the next.
C16_CursorOnNotesAndMonotonic ==
  /\ [](appState = "LEARNING"
          => \/ learningNoteIndex >= Len(NotesOf(song))
             \/ NoteAt(song, learningNoteIndex).note # "Rest")
  /\ [][(appState = "LEARNING" /\ appState' = "LEARNING")
          => learningNoteIndex' >= learningNoteIndex]_vars

\* the cursor has moved on, over a rest, in a learning run
C16_Witness ==
  /\ appState = "LEARNING" /\ HasNote(song, learningNoteIndex)
  /\ learningNoteIndex > NextTarget(song, 0) + 1
  /\ NoteAt(song, learningNoteIndex - 1).note = "Rest"

\* C17: in LEARNING, pressing the key of the note under the cursor, when a
\* later note that is no rest exists, moves the cursor to the least later
\* index that holds no rest and sets correctPressNote to the key.
C17_MatchAdvancesToNextNote ==
  [][\A k \in Keys :
       (/\ song # NoSong /\ appState = "LEARNING" /\ PressKey(k) /\ IsTarget(k)
        /\ NextTarget(song, learningNoteIndex + 1) < Len(NotesOf(song)))
       => /\ learningNoteIndex' = NextTarget(song, learningNoteIndex + 1)
          /\ correctPressNote' = k
          /\ appState' = "LEARNING"]_vars

\* a matching press has just moved the cursor over two rests
C17_Witness ==
  /\ appState = "LEARNING" /\ correctPressNote # NoNote /\ ~completionMessage
  /\ \E t \in timers : t.kind = "correctPulse" /\ t.at = now + PulseMs
  /\ learningNoteIndex >= 3
  /\ NoteAt(song, learningNoteIndex - 1).note = "Rest"
  /\ NoteAt(song, learningNoteIndex - 2).note = "Rest"
  /\ NoteAt(song, learningNoteIndex - 3).note = correctPressNote

\* C18: in LEARNING, pressing a key that is not the note under the cursor
\* leaves the cursor, appState, activeNotes and every oscillator as they
\* are, and sets incorrectPressNote to the key with one pulse callback armed.
C18_MismatchOnlyPulses ==
  [][\A k \in Keys :
       (song # NoSong /\ appState = "LEARNING" /\ PressKey(k) /\ ~IsTarget(k))
       => /\ UNCHANGED <<learningNoteIndex, appState, activeNotes, nodes,
                         manualNodesRef, correctPressNote>>
          /\ incorrectPressNote' = k
          /\ timers' = timers \cup {Untracked("incorrectPulse", now + PulseMs)}]_vars

\* a key that is not the target has just been pressed in LEARNING
C18_Witness ==
  /\ appState = "LEARNING" /\ incorrectPressNote # NoNote
  /\ HasNote(song, learningNoteIndex)
  /\ NoteAt(song, learningNoteIndex).note # incorrectPressNote
  /\ \E t \in timers : t.kind = "incorrectPulse" /\ t.at = now + PulseMs
  /\ activeNotes = {}

\* C19: when the completion callback of the current learning run fires,
\* appState becomes LOADED and the cursor becomes the first index of the
\* song that holds no rest.
C19_CompletionResetsToFirstNote ==
  [][(CompletionFires /\ appState = "LEARNING" /\ completionMessage)
       => appState' = "LOADED" /\ learningNoteIndex' = NextTarget(song, 0)]_vars

\* C20: where manual play is accepted and audio is available, pressing a key
\* that is not in activeNotes puts it there with exactly one running manual
\* oscillator for it, also right after its release; pressing a key that is
\* in activeNotes changes nothing.
C20_PressSoundsTheKey ==
  [][\A k \in Keys :
       (/\ song # NoSong /\ appState \in {"LOADED", "PAUSED"} /\ AudioOk(Cur)
        /\ PressKey(k))
       => IF k \notin activeNotes
          THEN /\ k \in activeNotes'
               /\ Cardinality({n \in ManualNodes(nodes') :
                                 n.note = k /\ n.endAt = Never}) = 1
          ELSE UNCHANGED <<activeNotes, nodes, manualNodesRef>>]_vars

\* C21: every note of activeNotes has an entry in manualNodesRef whose
\* oscillator is running, so that releasing the key finds it, stops it and
\* takes the note out of activeNotes.
C21_ActiveNotesAreRegistered ==
  \A p \in activeNotes :
    /\ \E e \in manualNodesRef :
         e.note = p /\ \E n \in nodes : n.id = e.id /\ n.endAt = Never
    /\ p \notin stopNote(Cur, p).activeNotes

\* C22: stopAllSounds called twice in a row leaves what one call leaves
\* (timers, oscillators, refs, activeNotes, appState, progress), and called
\* when the refs and activeNotes are empty it changes nothing.
C22_TeardownIsIdempotent ==
  /\ stopAllSounds(stopAllSounds(Cur)) = stopAllSounds(Cur)
  /\ (scheduledNodesRef = {} /\ scheduledUiCallbacksRef = {} /\ manualNodesRef = {}
      /\ activeNotes = {})
       => stopAllSounds(Cur) = Cur

\* a plan is under way, a key is held and another was just released: a
\* teardown has timers and oscillators of every kind to stop
C22_Witness ==
  /\ appState = "PLAYING" /\ now > playbackStartTimeRef
  /\ PlanTimers(timers) # {} /\ PlanNodes(nodes) # {}
  /\ activeNotes # {}
  /\ \E n \in nodes : n.onended /\ n.endAt > now
  /\ stopAllSounds(Cur) # Cur

\* C23: the Stop button pressed while appState is PLAYING or PAUSED leaves
\* appState LOADED, no highlight or terminal callback pending, no scheduled
\* oscillator live, both progress values 0 and no note highlighted.
C23_StopResetsToLoaded ==
  [][(ResetPlayback /\ appState \in {"PLAYING", "PAUSED"})
       => /\ appState' = "LOADED"
          /\ PlanTimers(timers') = {} /\ PlanNodes(nodes') = {}
          /\ scheduledUiCallbacksRef' = {} /\ scheduledNodesRef' = {}
          /\ playbackProgressRef' = 0 /\ playbackProgress' = 0
          /\ highlightedNoteInfo' = NullInfo]_vars

\* playback was started after time 0 and stopped within the same
\* millisecond, long before its terminal callback
C23_Witness ==
  /\ appState = "LOADED" /\ song # NoSong /\ audioContextRef
  /\ playbackStartTimeRef > 0 /\ now - playbackStartTimeRef <= MaxRenderDelay
  /\ timers = {} /\ PlanNodes(nodes) = {}
  /\ playbackProgressRef = 0 /\ playbackProgress = 0
  /\ highlightedNoteInfo = NullInfo

\* C24: Play Song / Resume pressed when no note of the song starts at or
\* after the offset it passes to scheduleSong arms no callback and no
\* oscillator, and leaves appState LOADED, not PLAYING.
C24_EmptyPlanEndsInLoaded ==
  [][(/\ HandlePlayPause /\ appState # "PLAYING" /\ AudioOk(Cur)
      /\ Remaining(song, PlayOffset(Cur)) = {})
       => /\ appState' = "LOADED"
          /\ PlanTimers(timers') = {} /\ PlanNodes(nodes') = {}]_vars

\* C25: Pause pressed while PLAYING stores the song position derived at that
\* instant (the stored progress plus the time since the anchor times the
\* speed), and while appState is PAUSED the reported playbackProgress equals
\* the stored progress.
C25_PausedProgressIsStored ==
  /\ [][(HandlePlayPause /\ appState = "PLAYING")
          => appState' = "PAUSED" /\ playbackProgressRef' = DerivedAt(Cur)]_vars
  /\ [](appState = "PAUSED" => playbackProgress = playbackProgressRef)

\* C26: while appState is LEARNING and the cursor is inside the song, the
\* highlighted note is the note under the cursor and no highlight callback is
\* pending; Exit Learn Mode leaves appState LOADED, the cursor 0 and no note
\* highlighted.
C26_LearningHighlightsCursor ==
  /\ [](appState = "LEARNING"
          => /\ HasNote(song, learningNoteIndex)
                  => highlightedNoteInfo =
                       [note |-> NoteAt(song, learningNoteIndex).note,
                        startTime |-> NoteAt(song, learningNoteIndex).startTime]
             /\ PlanTimers(timers) = {})
  /\ [][(HandleToggleLearning /\ appState = "LEARNING")
          => /\ appState' = "LOADED" /\ learningNoteIndex' = 0
             /\ highlightedNoteInfo' = NullInfo]_vars

\* the cursor has moved on in a learning run and its note is highlighted
C26_Witness ==
  /\ appState = "LEARNING" /\ HasNote(song, learningNoteIndex)
  /\ learningNoteIndex > NextTarget(song, 0)
  /\ highlightedNoteInfo.note = NoteAt(song, learningNoteIndex).note
  /\ highlightedNoteInfo.startTime = 300 * learningNoteIndex

\* C27: right after Play Song, Resume, a change of speed while PLAYING or
\* Learn Mode has been handled, activeNotes is empty, no manual oscillator is
\* left running, and the only plan callbacks and scheduled oscillators that
\* exist are those of the plan just armed (none after Learn Mode).
C27_EntryStopsOtherDrivers ==
  [][(\/ appState # "PLAYING" /\ appState' = "PLAYING"
      \/ appState = "PLAYING" /\ appState' = "PLAYING" /\ playbackSpeed' # playbackSpeed
      \/ appState # "LEARNING" /\ appState' = "LEARNING")
       => /\ activeNotes' = {}
          /\ Unstopped(ManualNodes(nodes')) = {}
          /\ TimerIds(PlanTimers(timers')) \subseteq scheduledUiCallbacksRef'
          /\ NodeIds(PlanNodes(nodes')) \subseteq scheduledNodesRef'
          /\ Cardinality({t \in timers' : t.kind = "end"}) <= 1
          /\ \A t \in PlanTimers(timers') : t.at >= now'
          /\ appState' = "LEARNING" => PlanTimers(timers') = {} /\ PlanNodes(nodes') = {}]_vars

\* the terminal callback of a plan runs in this step
EndFires == \E t \in timers : t.kind = "end" /\ t.at <= now /\ Rendered(fireTimer(Cur, t))

\* C28: the passing of time with its animation frame leaves the stored
\* progress, the anchor, appState, the plan's callbacks and refs and the
\* highlighted note as they are; the stored progress changes only in a pause,
\* in the replan of a render that is PLAYING (play, resume, change of speed),
\* in resetPlayback (Stop, a new generation, entering Learn Mode) and in the
\* terminal callback.
C28_FrameStoresNothing ==
  [][/\ Tick => UNCHANGED << playbackProgressRef, playbackStartTimeRef, appState, timers,
                             scheduledUiCallbacksRef, scheduledNodesRef,
                             highlightedNoteInfo >>
     /\ playbackProgressRef' # playbackProgressRef
          => \/ HandlePlayPause
             \/ ResetPlayback \/ HandleLoad
             \/ HandleToggleLearning /\ appState # "LEARNING"
             \/ EndFires]_vars

\* animation frames have run in the middle of a plan: the reported progress
\* is ahead of the stored one
C28_Witness ==
  /\ appState = "PLAYING" /\ now >= playbackStartTimeRef + TickStep
  /\ playbackProgress = DerivedAt(Cur) /\ playbackProgress > playbackProgressRef
  /\ PlanTimers(timers) # {} /\ highlightedNoteInfo # NullInfo

\* the highlight callbacks pending for the note that starts at st
HighlightsFor(ts, st) == {t \in ts : t.kind = "highlight" /\ t.startTime = st}

\* C29: when a render that is PLAYING has run scheduleSong with offset o (the
\* stored progress) and speed s at anchor instant a, then for every note that
\* starts at or after o one highlight callback is pending at
\* a + (startTime - o) / s and, unless it is a rest, one oscillator is
\* scheduled from that instant to a + (startTime - o + duration) / s; for
\* every note that starts before o neither exists; and one terminal callback
\* is pending at a + (end of the last note - o) / s + 100 ms.
C29_PlanPerNote ==
  [][(/\ AudioOk(Cur) /\ song' # NoSong /\ appState' = "PLAYING"
      /\ appState # "PLAYING" \/ playbackSpeed' # playbackSpeed)
       => LET o == playbackProgressRef'
              sp == playbackSpeed'
              a == now'
              last == NoteAt(song', Len(NotesOf(song')) - 1)
          IN /\ playbackStartTimeRef' = a
             /\ \A i \in 0..(Len(NotesOf(song')) - 1) :
                  LET nt == NoteAt(song', i)
                      from == a + CeilDiv(4 * nt.startTime - o, sp)
                      to == a + CeilDiv(4 * (nt.startTime + nt.duration) - o, sp)
                      hl == HighlightsFor(timers', nt.startTime)
                      tones == {n \in PlanNodes(nodes') : n.note = nt.note /\ n.startAt = from}
                  IN IF 4 * nt.startTime >= o
                     THEN /\ Cardinality(hl) = 1
                          /\ \A t \in hl : t.note = nt.note /\ t.at = from
                          /\ Cardinality(tones) = IF nt.note = "Rest" THEN 0 ELSE 1
                          /\ \A n \in tones : n.endAt = to
                     ELSE /\ hl = {}
                          /\ \A n \in PlanNodes(nodes') : ~(n.note = nt.note /\ n.endAt = to)
             /\ Cardinality(PlanNodes(nodes'))
                  = Cardinality({i \in 0..(Len(NotesOf(song')) - 1) :
                                   /\ 4 * NoteAt(song', i).startTime >= o
                                   /\ NoteAt(song', i).note # "Rest"})
             /\ \E t \in timers' :
                  /\ {u \in timers' : u.kind = "end"} = {t}
                  /\ t.at = a + Max(0, CeilDiv(4 * (last.startTime + last.duration) - o, sp)
                                       + EndTrailMs)]_vars

\* a plan was just armed from the middle of the song at a speed other than
\* 1.0x: some notes lie before the offset and some after it
C29_Witness ==
  /\ appState = "PLAYING" /\ audioContextRef /\ now = playbackStartTimeRef
  /\ playbackSpeed # 4 /\ playbackProgressRef > 0
  /\ \E i, j \in 0..(Len(NotesOf(song)) - 1) :
       /\ 4 * NoteAt(song, i).startTime < playbackProgressRef
       /\ 4 * NoteAt(song, j).startTime >= playbackProgressRef
       /\ NoteAt(song, j).note # "Rest"
       /\ HighlightsFor(timers, NoteAt(song, j).startTime) # {}
  /\ \A t \in PlanTimers(timers) : t.at > now

\* C30: the tone started by a matching press in LEARNING is released without
\* a release of the key: the matched note leaves activeNotes and its manual
\* oscillator is stopped, whether or not the user does anything more.
C30_MatchedToneIsReleased ==
  \A k \in Keys :
    (appState = "LEARNING" /\ correctPressNote = k /\ k \in activeNotes)
      ~> (/\ k \notin activeNotes
          /\ \A n \in ManualNodes(nodes) : n.note = k => n.endAt # Never)

\* C32: the AudioContext constructor throws, and the "Audio Error" is raised,
\* at most once: after a failure no key press, Play Song or Learn Mode calls
\* the constructor again.
C32_AudioCreationFailsOnce ==
  audioFailures <= 1

\* C33: whenever appState is LOADED the stored progress is 0.
C33_LoadedHasNoProgress ==
  appState = "LOADED" => playbackProgressRef = 0

\* C34: a song is installed exactly when appState is LOADED, PLAYING, PAUSED
\* or LEARNING; none is installed in IDLE, LOADING and ERROR.
C34_SongIffTransportHasOne ==
  song # NoSong <=> appState \in {"LOADED", "PLAYING", "PAUSED", "LEARNING"}

\* request r, which is not the latest one issued, delivers its result in this step
SupersededArrives(r) ==
  r \in inflight /\ r \notin inflight' /\ loadsIssued' = loadsIssued /\ r < loadsIssued

\* C35: the result of a generation request that a later request has
\* superseded changes neither the song nor appState when it arrives after
\* the later request's result, or while appState is PLAYING, PAUSED or
\* LEARNING: what is installed is what the latest request delivered.
C35_LatestRequestWins ==
  [][\A r \in inflight :
       (/\ SupersededArrives(r)
        /\ \/ \A q \in inflight : q <= r
           \/ appState \in {"PLAYING", "PAUSED", "LEARNING"})
       => UNCHANGED << song, appState >>]_vars

\* the completion callbacks armed by onNoteDown that are pending
Completions(ts) == {t \in ts : t.kind = "completion"}

\* C36: once a learning run has shown its completion message, no step of
\* that run arms another completion callback or marks another press as
\* correct: a further press of the last note is no match.
C36_OneCompletionPerRun ==
  [][(appState = "LEARNING" /\ completionMessage /\ appState' = "LEARNING")
       => /\ Completions(timers') \subseteq Completions(timers)
          /\ correctPressNote' \in {correctPressNote, NoNote}]_vars

\* a call of stopListening runs to its end in this step
StopCompletes == (StopListeningCall \/ StopContinues \/ SessionFails) /\ ~isStoppingRef'

\* C37: at most one microphone stream has live tracks and at most one live
\* session is connecting or open, also when startListening is called while
\* an earlier call awaits the microphone or the connection; and when a call
\* of stopListening has run to its end with isListening false, no stream
\* has live tracks and no session is left.
C37_OneStreamOneSession ==
  /\ [](Cardinality(streams) <= 1 /\ Cardinality(connecting \cup opened) <= 1)
  /\ [][(StopCompletes /\ ~isListening')
          => streams' = {} /\ connecting' \cup opened' = {}]_vars

\* C38: transcriptions holds at most one entry that is not complete, and
\* only as its last entry; a message with turnComplete leaves one entry for
\* the turn, the completed one in the place of the entry that was in progress.
C38_OneEntryPerTurn ==
  /\ [](\A i \in 1..Len(transcriptions) :
          ~transcriptions[i].isTurnComplete => i = Len(transcriptions))
  /\ [][(OnMessage /\ Len(transcriptions) > 0
         /\ ~transcriptions[Len(transcriptions)].isTurnComplete
         /\ transcriptions'[Len(transcriptions')].isTurnComplete)
          => Len(transcriptions') = Len(transcriptions)]_vars

====
